---------------------------- MODULE Spec2Model ----------------------------
(***************************************************************************)
(* CTimer (ctimer.h): a stopwatch over POSIX clock_gettime().              *)
(*                                                                         *)
(* A timespec is a record [tv_sec, tv_nsec]; a ctimer_t is a record        *)
(* [tic, toc, elapsed] of timespecs.  The functions of ctimer.h are        *)
(* operators on these records, computed as the C code computes them, and   *)
(* the units are the real ones (10^9 ns per s).  The model checker's       *)
(* integers are 32 bits wide where the C types (time_t, long) are 64 bits  *)
(* on LP64, so the clock of the model runs over little more than two       *)
(* seconds and accumulated times are kept below 2 s: in that range no      *)
(* C arithmetic overflows and none of the model's does.                    *)
(*                                                                         *)
(* Three specifications share the variables:                               *)
(*   Spec      any sequence of ctimer_* calls on one stopwatch, t          *)
(*   MainSpec  the example program (ctimer_example.c), n loop iterations   *)
(*   ArithSpec the timespec_* functions applied to drawn operands          *)
(***************************************************************************)
EXTENDS Integers, FiniteSets, Sequences, TLC

VARIABLES
    now,              \* value of CLOCK_MONOTONIC
    sw,               \* the ctimer_t objects, by name
    defined,          \* per stopwatch: the fields that have been assigned
    measure_on_stop,  \* whether CTIMER_MEASURE_ON_STOP is #define'd
    last,             \* the latest call: [op, id]
    prev,             \* the stopwatch as that call read it
    nops,             \* number of calls made (Spec)
    pc,               \* position in main() (MainSpec)
    i,                \* loop counter of main() (MainSpec)
    n_iter,           \* number of loop iterations of main() (MainSpec)
    smp,              \* clock samples taken by the latest Start/Stop of t_body
    acc,              \* sum of the sampled intervals of the completed iterations
    t1, t2,           \* operands (ArithSpec)
    fn,               \* function applied to them (ArithSpec)
    res,              \* its timespec result (ArithSpec)
    num               \* its integer result (ArithSpec)

vars == <<now, sw, defined, measure_on_stop, last, prev, nops,
          pc, i, n_iter, smp, acc, t1, t2, fn, res, num>>

apiVars   == <<now, sw, defined, measure_on_stop, last, prev>>
mainVars  == <<pc, i, n_iter, smp, acc>>
arithVars == <<t1, t2, fn, res, num>>

-----------------------------------------------------------------------------
(* Bounds of the model *)

\* Spec: ctimer_* calls per behaviour
MaxOps == 5
\* MainSpec: loop iterations of main() (5 in ctimer_example.c)
MaxIter == 3
\* OrderSpec: ctimer_* calls per behaviour, the first three included
MaxOrderOps == 6

-----------------------------------------------------------------------------
(* Unit conversion constants *)

_MSEC_PER_SEC == 1000
_USEC_PER_SEC == 1000 * 1000
_NSEC_PER_SEC == 1000 * 1000 * 1000

-----------------------------------------------------------------------------
(* Values *)

ts(s, ns) == [tv_sec |-> s, tv_nsec |-> ns]

\* (timespec_t) {0}
Zero == ts(0, 0)

Fields == {"tic", "toc", "elapsed"}

\* ctimer_t t (README example); ctimer_t t_total, t_body (ctimer_example.c)
Timers == {"t", "t_total", "t_body"}

\* Instants at which CLOCK_MONOTONIC is sampled: normalized timespecs
ClockTimes ==
    { ts(0, 100), ts(0, 500000100), ts(0, 999999950),
      ts(1, 50),  ts(1, 500000100), ts(1, 999999950) }

\* The clock when the program starts
ClockStart == ts(0, 100)

\* What a read of a never-assigned timespec field may return
Garbage == { ts(0, 600000000), ts(1, -5) }

\* C integer division truncates toward zero
CDiv(a, b) ==
    IF a >= 0 THEN a \div b ELSE -((-a) \div b)

\* tv_nsec in [0, 10^9)
Normalized(t) == t.tv_nsec >= 0 /\ t.tv_nsec < _NSEC_PER_SEC

\* a is not later than b (normalized timespecs)
NotAfter(a, b) ==
    \/ a.tv_sec < b.tv_sec
    \/ a.tv_sec = b.tv_sec /\ a.tv_nsec <= b.tv_nsec

\* the range the model keeps accumulated times in
Fits(t) ==
    /\ t.tv_sec \in -1 .. 1
    /\ t.tv_nsec > -_NSEC_PER_SEC
    /\ t.tv_nsec < _NSEC_PER_SEC

\* x + y is within the integers of the model
SumFits(x, y) ==
    IF y >= 0 THEN x <= 2147483647 - y ELSE x >= (-2147483647) - y

-----------------------------------------------------------------------------
(* Faulty variants of the timespec utilities, used to test the properties *)

\* no borrow at all: the raw component differences
timespec_sub_noborrow(a, b) ==
    [tv_nsec |-> b.tv_nsec - a.tv_nsec, tv_sec |-> b.tv_sec - a.tv_sec]

\* the borrow adds 10^9 ns but forgets td->tv_sec--
timespec_sub_nodec(a, b) ==
    LET td == [tv_nsec |-> b.tv_nsec - a.tv_nsec,
               tv_sec  |-> b.tv_sec  - a.tv_sec]
    IN  IF td.tv_sec > 0 /\ td.tv_nsec < 0
        THEN [tv_nsec |-> td.tv_nsec + _NSEC_PER_SEC, tv_sec |-> td.tv_sec]
        ELSE IF td.tv_sec < 0 /\ td.tv_nsec > 0
        THEN [tv_nsec |-> td.tv_nsec - _NSEC_PER_SEC, tv_sec |-> td.tv_sec + 1]
        ELSE td

\* the sign tests written with >= and <=
timespec_sub_nonstrict(a, b) ==
    LET td == [tv_nsec |-> b.tv_nsec - a.tv_nsec,
               tv_sec  |-> b.tv_sec  - a.tv_sec]
    IN  IF td.tv_sec >= 0 /\ td.tv_nsec <= 0
        THEN [tv_nsec |-> td.tv_nsec + _NSEC_PER_SEC, tv_sec |-> td.tv_sec - 1]
        ELSE IF td.tv_sec <= 0 /\ td.tv_nsec >= 0
        THEN [tv_nsec |-> td.tv_nsec - _NSEC_PER_SEC, tv_sec |-> td.tv_sec + 1]
        ELSE td

\* the carry subtracts 10^9 ns but forgets t1->tv_sec++
timespec_add_nocarry(a, b) ==
    LET s == [tv_nsec |-> a.tv_nsec + b.tv_nsec,
              tv_sec  |-> a.tv_sec  + b.tv_sec]
    IN  IF s.tv_nsec >= _NSEC_PER_SEC
        THEN [tv_nsec |-> s.tv_nsec - _NSEC_PER_SEC, tv_sec |-> s.tv_sec]
        ELSE s

\* only the positive borrow; the rule for tv_sec < 0, tv_nsec > 0 is missing
timespec_sub_onesided(a, b) ==
    LET td == [tv_nsec |-> b.tv_nsec - a.tv_nsec,
               tv_sec  |-> b.tv_sec  - a.tv_sec]
    IN  IF td.tv_sec > 0 /\ td.tv_nsec < 0
        THEN [tv_nsec |-> td.tv_nsec + _NSEC_PER_SEC, tv_sec |-> td.tv_sec - 1]
        ELSE td

\* the carry test written with > : a sum of exactly 10^9 ns is kept
timespec_add_gt(a, b) ==
    LET s == [tv_nsec |-> a.tv_nsec + b.tv_nsec,
              tv_sec  |-> a.tv_sec  + b.tv_sec]
    IN  IF s.tv_nsec > _NSEC_PER_SEC
        THEN [tv_nsec |-> s.tv_nsec - _NSEC_PER_SEC, tv_sec |-> s.tv_sec + 1]
        ELSE s

\* the carry increments tv_sec but leaves tv_nsec as it was
timespec_add_nosub(a, b) ==
    LET s == [tv_nsec |-> a.tv_nsec + b.tv_nsec,
              tv_sec  |-> a.tv_sec  + b.tv_sec]
    IN  IF s.tv_nsec >= _NSEC_PER_SEC
        THEN [tv_nsec |-> s.tv_nsec, tv_sec |-> s.tv_sec + 1]
        ELSE s

\* milliseconds rounded to nearest instead of truncated
timespec_msec_rounds(t) ==
    t.tv_sec * _MSEC_PER_SEC
      + CDiv(t.tv_nsec + _USEC_PER_SEC \div 2, _USEC_PER_SEC)

-----------------------------------------------------------------------------
(* timespec utilities *)

timespec_sub(a, b) ==
    LET td == [tv_nsec |-> b.tv_nsec - a.tv_nsec,
               tv_sec  |-> b.tv_sec  - a.tv_sec]
    IN  IF td.tv_sec > 0 /\ td.tv_nsec < 0
        THEN [tv_nsec |-> td.tv_nsec + _NSEC_PER_SEC, tv_sec |-> td.tv_sec - 1]
        ELSE IF td.tv_sec < 0 /\ td.tv_nsec > 0
        THEN [tv_nsec |-> td.tv_nsec - _NSEC_PER_SEC, tv_sec |-> td.tv_sec + 1]
        ELSE td

timespec_add(a, b) ==
    LET s == [tv_nsec |-> a.tv_nsec + b.tv_nsec,
              tv_sec  |-> a.tv_sec  + b.tv_sec]
    IN  IF s.tv_nsec >= _NSEC_PER_SEC
        THEN [tv_nsec |-> s.tv_nsec - _NSEC_PER_SEC, tv_sec |-> s.tv_sec + 1]
        ELSE s

timespec_msec(t) == t.tv_sec * _MSEC_PER_SEC + CDiv(t.tv_nsec, _USEC_PER_SEC)

timespec_usec(t) == t.tv_sec * _USEC_PER_SEC + CDiv(t.tv_nsec, _MSEC_PER_SEC)

timespec_nsec(t) == t.tv_sec * _NSEC_PER_SEC + t.tv_nsec

-----------------------------------------------------------------------------
(* Faulty variants of the stopwatch functions, used to test the properties *)

\* the operands of timespec_sub exchanged
ctimer_measure_swapped(t) ==
    [t EXCEPT !.elapsed = timespec_sub(t.toc, t.tic)]

\* the lap stored instead of added
ctimer_lap_overwrite(t) ==
    [t EXCEPT !.elapsed = timespec_sub(t.tic, t.toc)]

\* the lap taken from toc back to tic
ctimer_lap_swapped(t) ==
    LET lap_buf == timespec_sub(t.toc, t.tic)
    IN  [t EXCEPT !.elapsed = timespec_add(t.elapsed, lap_buf)]

\* the whole object zeroed
ctimer_reset_all(t) ==
    [tic |-> Zero, toc |-> Zero, elapsed |-> Zero]

\* the clock stored into toc as well
ctimer_start_both(t, clk) ==
    [t EXCEPT !.tic = clk, !.toc = clk]

\* never measures, whatever CTIMER_MEASURE_ON_STOP
ctimer_stop_nomeasure(t, clk, mos) ==
    [t EXCEPT !.toc = clk]

\* always measures, whatever CTIMER_MEASURE_ON_STOP
ctimer_stop_always(t, clk, mos) ==
    [t EXCEPT !.toc = clk, !.elapsed = timespec_sub(t.tic, clk)]

\* the measurement also restarts the stopwatch at its stop time
ctimer_measure_restarts(t) ==
    [t EXCEPT !.elapsed = timespec_sub(t.tic, t.toc), !.tic = t.toc]

\* a negative difference clamped to zero
ctimer_measure_clamped(t) ==
    LET d == timespec_sub(t.tic, t.toc)
    IN  [t EXCEPT !.elapsed = IF d.tv_sec < 0 \/ d.tv_nsec < 0 THEN Zero ELSE d]

-----------------------------------------------------------------------------
(* stopwatch functions, on one ctimer_t value *)

ctimer_measure(t) ==
    [t EXCEPT !.elapsed = timespec_sub(t.tic, t.toc)]

ctimer_lap(t) ==
    LET lap_buf == timespec_sub(t.tic, t.toc)
    IN  [t EXCEPT !.elapsed = timespec_add(t.elapsed, lap_buf)]

ctimer_reset(t) ==
    [t EXCEPT !.elapsed = Zero]

\* clk: what clock_gettime( CLOCK_MONOTONIC, .. ) stores
ctimer_start(t, clk) ==
    [t EXCEPT !.tic = clk]

\* mos: CTIMER_MEASURE_ON_STOP is defined
ctimer_stop(t, clk, mos) ==
    LET s == [t EXCEPT !.toc = clk]
    IN  IF mos THEN ctimer_measure(s) ELSE s

-----------------------------------------------------------------------------
(* A call on the stopwatch id.  A field that was never assigned has no     *)
(* guaranteed value: each read of it returns some member of Garbage.       *)

\* the object before any assignment (what it holds is never read)
ZeroTimer == [tic |-> Zero, toc |-> Zero, elapsed |-> Zero]

Read(id, f) ==
    IF f \in defined[id] THEN {sw[id][f]} ELSE Garbage

\* the stopwatch id as a call that reads the fields `reads` may see it
Views(id, reads) ==
    { [tic |-> a, toc |-> b, elapsed |-> e] :
        a \in (IF "tic" \in reads THEN Read(id, "tic") ELSE {sw[id].tic}),
        b \in (IF "toc" \in reads THEN Read(id, "toc") ELSE {sw[id].toc}),
        e \in (IF "elapsed" \in reads THEN Read(id, "elapsed")
                                      ELSE {sw[id].elapsed}) }

\* the object after the call: fields still unassigned keep no value
Store(t, def) ==
    [f \in Fields |-> IF f \in def THEN t[f] ELSE Zero]

\* the call `name` on id saw t, assigned the fields `writes` and left t_new
Call(id, name, t, writes, t_new) ==
    /\ sw' = [sw EXCEPT ![id] = Store(t_new, defined[id] \cup writes)]
    /\ defined' = [defined EXCEPT ![id] = @ \cup writes]
    /\ last' = [op |-> name, id |-> id]
    /\ prev' = t
    /\ UNCHANGED <<now, measure_on_stop>>

ApiStart(id) ==
    \E t \in Views(id, {}) :
        Call(id, "start", t, {"tic"}, ctimer_start(t, now))

ApiStop(id) ==
    IF measure_on_stop
    THEN \E t \in Views(id, {"tic"}) :
            Call(id, "stop", t, {"toc", "elapsed"}, ctimer_stop(t, now, TRUE))
    ELSE \E t \in Views(id, {}) :
            Call(id, "stop", t, {"toc"}, ctimer_stop(t, now, FALSE))

ApiMeasure(id) ==
    \E t \in Views(id, {"tic", "toc"}) :
        Call(id, "measure", t, {"elapsed"}, ctimer_measure(t))

ApiLap(id) ==
    \E t \in Views(id, {"tic", "toc", "elapsed"}) :
        /\ Fits(ctimer_lap(t).elapsed)
        /\ Call(id, "lap", t, {"elapsed"}, ctimer_lap(t))

ApiReset(id) ==
    \E t \in Views(id, {}) :
        Call(id, "reset", t, {"elapsed"}, ctimer_reset(t))

-----------------------------------------------------------------------------
(* Spec: the library under any sequence of calls *)

NoCall == [op |-> "none", id |-> "none"]

InitApi ==
    /\ now = ClockStart
    /\ sw = [id \in Timers |-> ZeroTimer]
    /\ defined = [id \in Timers |-> {}]
    /\ measure_on_stop \in BOOLEAN
    /\ last = NoCall
    /\ prev = ZeroTimer

InitNoMain ==
    /\ pc = "none"
    /\ i = 0
    /\ n_iter = 0
    /\ smp = [start |-> Zero, stop |-> Zero]
    /\ acc = 0

InitNoArith ==
    /\ t1 = Zero
    /\ t2 = Zero
    /\ fn = "none"
    /\ res = Zero
    /\ num = 0

Init ==
    /\ InitApi
    /\ nops = 0
    /\ InitNoMain
    /\ InitNoArith

\* time passes: CLOCK_MONOTONIC never goes back
Tick ==
    /\ \E c \in ClockTimes :
        /\ c # now
        /\ NotAfter(now, c)
        /\ now' = c
    /\ last' = [op |-> "tick", id |-> "none"]
    /\ prev' = ZeroTimer
    /\ UNCHANGED <<sw, defined, measure_on_stop, nops, mainVars, arithVars>>

Counted ==
    /\ nops < MaxOps
    /\ nops' = nops + 1
    /\ UNCHANGED <<mainVars, arithVars>>

Start(id) == ApiStart(id) /\ Counted

Stop(id) == ApiStop(id) /\ Counted

Measure(id) == ApiMeasure(id) /\ Counted

Lap(id) == ApiLap(id) /\ Counted

Reset(id) == ApiReset(id) /\ Counted

Next ==
    \/ Tick
    \/ Start("t")
    \/ Stop("t")
    \/ Measure("t")
    \/ Lap("t")
    \/ Reset("t")

Spec == Init /\ [][Next]_vars

-----------------------------------------------------------------------------
(* OrderSpec: one stopwatch that is first reset, started and stopped, so    *)
(* that tic, toc and elapsed are all assigned, and then used through any    *)
(* sequence of calls.  No call ever reads an unassigned field.              *)

OrderCounted ==
    /\ nops < MaxOrderOps
    /\ nops' = nops + 1
    /\ UNCHANGED <<mainVars, arithVars>>

OrderReset ==
    /\ defined["t"] \in { {}, Fields }
    /\ ApiReset("t")
    /\ OrderCounted

OrderStart ==
    /\ defined["t"] \in { {"elapsed"}, Fields }
    /\ ApiStart("t")
    /\ OrderCounted

OrderStop ==
    /\ defined["t"] \in { {"elapsed", "tic"}, Fields }
    /\ ApiStop("t")
    /\ OrderCounted

OrderMeasure ==
    /\ defined["t"] = Fields
    /\ ApiMeasure("t")
    /\ OrderCounted

\* ctimer_lap, enabled while the nanosecond sum is within the integers of
\* the model; elapsed.tv_nsec may leave (-10^9, 10^9)
OrderLap ==
    /\ defined["t"] = Fields
    /\ \E t \in Views("t", {"tic", "toc", "elapsed"}) :
          /\ SumFits(t.elapsed.tv_nsec, timespec_sub(t.tic, t.toc).tv_nsec)
          /\ Call("t", "lap", t, {"elapsed"}, ctimer_lap(t))
    /\ OrderCounted

NextOrder ==
    \/ Tick
    \/ OrderReset
    \/ OrderStart
    \/ OrderStop
    \/ OrderMeasure
    \/ OrderLap

OrderSpec == Init /\ [][NextOrder]_vars

-----------------------------------------------------------------------------
(* MainSpec: main() of ctimer_example.c, with n_iter loop iterations and   *)
(* any amount of time passing between two statements.  pc names the line   *)
(* of the statement to execute next.                                       *)

InitMain ==
    /\ InitApi
    /\ nops = 0
    /\ pc = "l49"
    /\ i = 0
    /\ n_iter \in 1 .. MaxIter
    /\ smp = [start |-> Zero, stop |-> Zero]
    /\ acc = 0
    /\ InitNoArith

\* ctimer_start( &t_total );
Main_l49 ==
    /\ pc = "l49"
    /\ ApiStart("t_total")
    /\ pc' = "l50"
    /\ UNCHANGED <<nops, i, n_iter, smp, acc, arithVars>>

\* ctimer_reset( &t_body );  for (int i = 0; i < n_iter; ..)
Main_l50 ==
    /\ pc = "l50"
    /\ ApiReset("t_body")
    /\ pc' = IF 0 < n_iter THEN "l53" ELSE "l63"
    /\ UNCHANGED <<nops, i, n_iter, smp, acc, arithVars>>

\* ctimer_start( &t_body );
Main_l53 ==
    /\ pc = "l53"
    /\ ApiStart("t_body")
    /\ smp' = [smp EXCEPT !.start = now]
    /\ pc' = "l57"
    /\ UNCHANGED <<nops, i, n_iter, acc, arithVars>>

\* ctimer_stop( &t_body );
Main_l57 ==
    /\ pc = "l57"
    /\ ApiStop("t_body")
    /\ smp' = [smp EXCEPT !.stop = now]
    /\ pc' = "l58"
    /\ UNCHANGED <<nops, i, n_iter, acc, arithVars>>

\* ctimer_lap( &t_body );  ++i, i < n_iter
Main_l58 ==
    /\ pc = "l58"
    /\ ApiLap("t_body")
    /\ acc' = acc + (timespec_nsec(smp.stop) - timespec_nsec(smp.start))
    /\ i' = i + 1
    /\ pc' = IF i + 1 < n_iter THEN "l53" ELSE "l63"
    /\ UNCHANGED <<nops, n_iter, smp, arithVars>>

\* ctimer_stop( &t_total );
Main_l63 ==
    /\ pc = "l63"
    /\ ApiStop("t_total")
    /\ pc' = "l64"
    /\ UNCHANGED <<nops, i, n_iter, smp, acc, arithVars>>

\* ctimer_measure( &t_total );
Main_l64 ==
    /\ pc = "l64"
    /\ ApiMeasure("t_total")
    /\ pc' = "done"
    /\ UNCHANGED <<nops, i, n_iter, smp, acc, arithVars>>

NextMain ==
    \/ Tick
    \/ Main_l49
    \/ Main_l50
    \/ Main_l53
    \/ Main_l57
    \/ Main_l58
    \/ Main_l63
    \/ Main_l64

MainSpec == InitMain /\ [][NextMain]_vars

-----------------------------------------------------------------------------
(* ArithSpec: the timespec functions, each applied once to operands drawn  *)
(* from Operands.                                                          *)

\* normalized timespecs (tv_nsec in [0, 10^9))
NormalOperands ==
    ClockTimes \cup { Zero, ts(0, 50), ts(1, 100), ts(-1, 900000000) }

\* timespecs with tv_nsec outside [0, 10^9)
OtherOperands ==
    { ts(0, -50), ts(1, -5), ts(0, 1000000050), ts(-1, -300000000) }

Operands == NormalOperands \cup OtherOperands

InitArith ==
    /\ now = ClockStart
    /\ sw = [id \in Timers |-> ZeroTimer]
    /\ defined = [id \in Timers |-> {}]
    /\ measure_on_stop = FALSE
    /\ last = NoCall
    /\ prev = ZeroTimer
    /\ nops = 0
    /\ InitNoMain
    /\ t1 \in Operands
    /\ t2 \in Operands
    /\ fn = "none"
    /\ res = Zero
    /\ num = 0

Applied(name) ==
    /\ fn = "none"
    /\ fn' = name
    /\ UNCHANGED <<t1, t2, apiVars, nops, mainVars>>

\* timespec_sub( &res, t1, t2 )
ApplySub ==
    /\ Applied("sub")
    /\ res' = timespec_sub(t1, t2)
    /\ num' = num

\* res = t1; timespec_add( &res, t2 )
ApplyAdd ==
    /\ SumFits(timespec_nsec(t1), timespec_nsec(t2))
    /\ Applied("add")
    /\ res' = timespec_add(t1, t2)
    /\ num' = num

\* timespec_msec( t1 )
ApplyMsec ==
    /\ Applied("msec")
    /\ num' = timespec_msec(t1)
    /\ res' = res

\* timespec_usec( t1 )
ApplyUsec ==
    /\ Applied("usec")
    /\ num' = timespec_usec(t1)
    /\ res' = res

\* timespec_nsec( t1 )
ApplyNsec ==
    /\ Applied("nsec")
    /\ num' = timespec_nsec(t1)
    /\ res' = res

NextArith ==
    \/ ApplySub
    \/ ApplyAdd
    \/ ApplyMsec
    \/ ApplyUsec
    \/ ApplyNsec

ArithSpec == InitArith /\ [][NextArith]_vars

-----------------------------------------------------------------------------
(* Properties of the timespec functions (ArithSpec) *)

\* t1 and t2 are normalized and t2 is not before t1
Forward == Normalized(t1) /\ Normalized(t2) /\ NotAfter(t1, t2)

\* C3: for normalized a, b with b not before a, difference(a, b) has
\* seconds >= 0 and nanos in [0, 10^9), and its total nanoseconds are
\* to_nanos(b) - to_nanos(a); difference({5,100}, {6,50}) is {0, 999999950}.
C3_DifferenceBorrow ==
    /\ timespec_sub(ts(5, 100), ts(6, 50)) = ts(0, 999999950)
    /\ (fn = "sub" /\ Forward) =>
          /\ res.tv_sec >= 0
          /\ Normalized(res)
          /\ timespec_nsec(res) = timespec_nsec(t2) - timespec_nsec(t1)

\* a forward difference that had to borrow
C3_Witness ==
    /\ fn = "sub"
    /\ Forward
    /\ t2.tv_sec > t1.tv_sec
    /\ t2.tv_nsec < t1.tv_nsec
    /\ res = ts(t2.tv_sec - t1.tv_sec - 1,
                t2.tv_nsec - t1.tv_nsec + _NSEC_PER_SEC)

\* C8: for normalized a, b in either order,
\* to_nanos(difference(a, b)) = -to_nanos(difference(b, a)).
C8_DifferenceAntisymmetric ==
    (fn = "sub" /\ Normalized(t1) /\ Normalized(t2)) =>
        timespec_nsec(res) = -timespec_nsec(timespec_sub(t2, t1))

\* a reversed difference (t2 before t1) whose mirror image borrows
C8_Witness ==
    /\ fn = "sub"
    /\ Normalized(t1)
    /\ Normalized(t2)
    /\ t1.tv_sec > t2.tv_sec
    /\ t1.tv_nsec < t2.tv_nsec
    /\ res.tv_sec = 0
    /\ res.tv_nsec < 0

\* C9: difference(a, a) is {0, 0} for every timespec a, normalized or not.
C9_DifferenceSelfZero ==
    (fn = "sub" /\ t1 = t2) => res = Zero

\* a timespec outside the normalized range subtracted from itself
C9_Witness ==
    /\ fn = "sub"
    /\ t1 = t2
    /\ ~Normalized(t1)
    /\ res = Zero

\* C10: to_nanos(sum(a, b)) = to_nanos(a) + to_nanos(b), and sum(a, b) and
\* sum(b, a) have the same components.
C10_SumTotalCommutative ==
    (fn = "add") =>
        /\ timespec_nsec(res) = timespec_nsec(t1) + timespec_nsec(t2)
        /\ res = timespec_add(t2, t1)

\* a sum of two different timespecs that carried into the seconds
C10_Witness ==
    /\ fn = "add"
    /\ t1 # t2
    /\ t1.tv_nsec + t2.tv_nsec >= _NSEC_PER_SEC
    /\ res.tv_sec = t1.tv_sec + t2.tv_sec + 1

\* C13: for t with tv_sec >= 0 and tv_nsec >= 0 the conversions agree under
\* integer truncation: to_millis(t) = to_nanos(t) / 10^6 and
\* to_micros(t) = to_nanos(t) / 10^3, where to_millis(t) is
\* seconds * 1000 + nanos / 10^6 and to_micros(t) is
\* seconds * 10^6 + nanos / 1000.
C13_ConversionsAgree ==
    (t1.tv_sec >= 0 /\ t1.tv_nsec >= 0) =>
        /\ fn = "msec" =>
              /\ num = t1.tv_sec * 1000 + t1.tv_nsec \div 1000000
              /\ num = timespec_nsec(t1) \div 1000000
        /\ fn = "usec" =>
              /\ num = t1.tv_sec * 1000000 + t1.tv_nsec \div 1000
              /\ num = timespec_nsec(t1) \div 1000

\* milliseconds of a time past one second whose nanoseconds are cut off
C13_Witness ==
    /\ fn = "msec"
    /\ t1.tv_sec >= 1
    /\ t1.tv_nsec >= 0
    /\ t1.tv_nsec % 1000000 >= 500000
    /\ num = timespec_nsec(t1) \div 1000000

\* C14: for normalized t1, t2 the difference d never has seconds > 0 with
\* nanos < 0, never has seconds < 0 with nanos > 0, always has
\* |nanos| < 10^9, and is the raw component subtraction when the raw
\* component differences already agree in sign.
C14_DifferenceNormalized ==
    (fn = "sub" /\ Normalized(t1) /\ Normalized(t2)) =>
        LET ds == t2.tv_sec - t1.tv_sec
            dn == t2.tv_nsec - t1.tv_nsec
        IN  /\ ~(res.tv_sec > 0 /\ res.tv_nsec < 0)
            /\ ~(res.tv_sec < 0 /\ res.tv_nsec > 0)
            /\ res.tv_nsec > -_NSEC_PER_SEC
            /\ res.tv_nsec < _NSEC_PER_SEC
            /\ (~(ds > 0 /\ dn < 0) /\ ~(ds < 0 /\ dn > 0)) => res = ts(ds, dn)

\* raw differences of opposite sign, seconds negative: the symmetric rule
C14_Witness ==
    /\ fn = "sub"
    /\ Normalized(t1)
    /\ Normalized(t2)
    /\ t2.tv_sec - t1.tv_sec < 0
    /\ t2.tv_nsec - t1.tv_nsec > 0
    /\ res = ts(t2.tv_sec - t1.tv_sec + 1,
                t2.tv_nsec - t1.tv_nsec - _NSEC_PER_SEC)

\* C15: for individually normalized t1, t2 the sum has nanos in [0, 10^9)
\* and seconds t1.seconds + t2.seconds, plus 1 exactly when
\* t1.nanos + t2.nanos >= 10^9: one carry step suffices.
C15_SumSingleCarry ==
    (fn = "add" /\ Normalized(t1) /\ Normalized(t2)) =>
        /\ Normalized(res)
        /\ res.tv_sec = t1.tv_sec + t2.tv_sec
                          + (IF t1.tv_nsec + t2.tv_nsec >= _NSEC_PER_SEC
                             THEN 1 ELSE 0)

\* nanoseconds that add up to exactly one second
C15_Witness ==
    /\ fn = "add"
    /\ Normalized(t1)
    /\ Normalized(t2)
    /\ t1.tv_nsec + t2.tv_nsec = _NSEC_PER_SEC
    /\ res = ts(t1.tv_sec + t2.tv_sec + 1, 0)

\* C19: for normalized a, b with b not before a, sum(a, difference(a, b))
\* is b, seconds and nanos alike.
C19_SumInvertsDifference ==
    (fn = "sub" /\ Forward) => timespec_add(t1, res) = t2

\* a difference that borrowed, added back with a carry
C19_Witness ==
    /\ fn = "sub"
    /\ Forward
    /\ t1 # t2
    /\ t2.tv_nsec < t1.tv_nsec
    /\ t1.tv_nsec + res.tv_nsec >= _NSEC_PER_SEC
    /\ timespec_add(t1, res) = t2

-----------------------------------------------------------------------------
(* Properties of the stopwatch under any sequence of calls (Spec).  After  *)
(* a call, last names it, prev is the object as the call read it and       *)
(* sw[last.id] is the object it left; now is still the clock it sampled.   *)

\* C2: Measure sets elapsed to Difference(start, stop) whatever elapsed held:
\* to_nanos(elapsed) = to_nanos(stop) - to_nanos(start), {1 s, 500000000 ns}
\* for an interval of 1.5 s, and the same for any other prior elapsed.
C2_MeasureOverwrites ==
    (last.op = "measure") =>
        LET e == sw[last.id].elapsed
        IN  /\ e = timespec_sub(prev.tic, prev.toc)
            /\ \A g \in Garbage \cup ClockTimes \cup {Zero} :
                  ctimer_measure([prev EXCEPT !.elapsed = g]).elapsed = e
            /\ (Normalized(prev.tic) /\ Normalized(prev.toc)) =>
                  /\ timespec_nsec(e)
                        = timespec_nsec(prev.toc) - timespec_nsec(prev.tic)
                  /\ (timespec_nsec(prev.toc) - timespec_nsec(prev.tic)
                        = 1500000000) => e = ts(1, 500000000)

\* Start at T0, Stop at T0 + 1.5 s, Measure over an earlier, other elapsed
C2_Witness ==
    /\ last.op = "measure"
    /\ {"tic", "toc"} \subseteq defined[last.id]
    /\ prev.tic = ts(0, 100)
    /\ prev.toc = ts(1, 500000100)
    /\ prev.elapsed \notin {Zero, ts(1, 500000000)}
    /\ sw[last.id].elapsed = ts(1, 500000000)

\* C4: Lap adds Difference(start, stop) to elapsed:
\* to_nanos(elapsed') = to_nanos(elapsed) + to_nanos(stop) - to_nanos(start),
\* elapsed' being Sum(elapsed, Difference(start, stop)).
C4_LapAccumulates ==
    (last.op = "lap") =>
        LET e == sw[last.id].elapsed
        IN  /\ e = timespec_add(prev.elapsed, timespec_sub(prev.tic, prev.toc))
            /\ (Normalized(prev.tic) /\ Normalized(prev.toc)) =>
                  timespec_nsec(e) - timespec_nsec(prev.elapsed)
                     = timespec_nsec(prev.toc) - timespec_nsec(prev.tic)

\* a lap added to an earlier non-zero elapsed, with a carry into the seconds
C4_Witness ==
    /\ last.op = "lap"
    /\ defined[last.id] = Fields
    /\ Normalized(prev.tic)
    /\ Normalized(prev.toc)
    /\ prev.tic # prev.toc
    /\ prev.elapsed # Zero
    /\ sw[last.id].elapsed.tv_sec = prev.elapsed.tv_sec + 1
    /\ sw[last.id].elapsed.tv_nsec < prev.elapsed.tv_nsec

\* C5: with CTIMER_MEASURE_ON_STOP, Stop leaves elapsed = Difference(start,
\* stop), component for component what Stop then Measure leave without it
\* for the same clock sample.
C5_MeasureOnStop ==
    (measure_on_stop /\ last.op = "stop") =>
        LET t == sw[last.id]
        IN  /\ t.toc = now
            /\ t.elapsed = timespec_sub(prev.tic, t.toc)
            /\ t.elapsed
                 = ctimer_measure(ctimer_stop(prev, now, FALSE)).elapsed

\* Start, time passes, Stop with CTIMER_MEASURE_ON_STOP
C5_Witness ==
    /\ measure_on_stop
    /\ last.op = "stop"
    /\ "tic" \in defined[last.id]
    /\ sw[last.id].tic = prev.tic
    /\ sw[last.id].tic # sw[last.id].toc
    /\ sw[last.id].elapsed # Zero
    /\ sw[last.id].elapsed # prev.elapsed

\* C6: without CTIMER_MEASURE_ON_STOP, Start assigns only tic and Stop only
\* toc: elapsed and the other timestamp are left as they were.
C6_StartStopFrame ==
    (~measure_on_stop) =>
        /\ (last.op = "start") =>
              /\ sw[last.id].tic = now
              /\ sw[last.id].toc = prev.toc
              /\ sw[last.id].elapsed = prev.elapsed
        /\ (last.op = "stop") =>
              /\ sw[last.id].toc = now
              /\ sw[last.id].tic = prev.tic
              /\ sw[last.id].elapsed = prev.elapsed

\* a repeated Start that overwrites the earlier tic of a measured stopwatch
C6_Witness ==
    /\ ~measure_on_stop
    /\ last.op = "start"
    /\ defined[last.id] = Fields
    /\ prev.tic # sw[last.id].tic
    /\ sw[last.id].toc # sw[last.id].tic
    /\ sw[last.id].elapsed # Zero

\* C7: Reset sets elapsed to {0, 0}, so to_nanos(elapsed) = 0, and leaves
\* tic and toc as they were.
C7_ResetZero ==
    (last.op = "reset") =>
        /\ sw[last.id].elapsed = Zero
        /\ timespec_nsec(sw[last.id].elapsed) = 0
        /\ sw[last.id].tic = prev.tic
        /\ sw[last.id].toc = prev.toc

\* Reset of a stopwatch that held a non-zero elapsed, tic and toc
C7_Witness ==
    /\ last.op = "reset"
    /\ defined[last.id] = Fields
    /\ prev.elapsed # Zero
    /\ prev.tic # Zero
    /\ prev.toc # prev.tic
    /\ sw[last.id].elapsed = Zero

-----------------------------------------------------------------------------
(* Properties of the example program (MainSpec) *)

\* C1: without CTIMER_MEASURE_ON_STOP, after Reset and i >= 1 iterations of
\* Start, Stop, Lap, to_nanos(elapsed) is the sum of the i sampled
\* intervals, and tic and toc are the samples of the i-th iteration.
C1_LapsSumToElapsed ==
    (~measure_on_stop /\ i >= 1 /\ pc \in {"l53", "l63", "l64", "done"}) =>
        /\ timespec_nsec(sw["t_body"].elapsed) = acc
        /\ sw["t_body"].tic = smp.start
        /\ sw["t_body"].toc = smp.stop

\* three iterations, the last one not empty, more than a second in all
C1_Witness ==
    /\ ~measure_on_stop
    /\ i = 3
    /\ pc = "l63"
    /\ smp.start # smp.stop
    /\ sw["t_body"].elapsed.tv_sec = 1
    /\ timespec_nsec(sw["t_body"].elapsed)
          > timespec_nsec(smp.stop) - timespec_nsec(smp.start)

\* C16: with CTIMER_MEASURE_ON_STOP, Stop overwrites elapsed before Lap
\* runs: after Stop elapsed is the interval just stopped, and after Reset and
\* i >= 1 iterations of Start, Stop, Lap, to_nanos(elapsed) is exactly
\* 2 * (to_nanos(stop_i) - to_nanos(start_i)), whatever the earlier
\* iterations accumulated.
C16_MeasureOnStopDoubles ==
    LET d == timespec_nsec(smp.stop) - timespec_nsec(smp.start)
    IN  /\ (measure_on_stop /\ pc = "l58") =>
              timespec_nsec(sw["t_body"].elapsed) = d
        /\ (measure_on_stop /\ i >= 1 /\ pc \in {"l53", "l63", "l64", "done"})
              => timespec_nsec(sw["t_body"].elapsed) = 2 * d

\* two or more iterations, earlier ones not empty, the last one not empty
C16_Witness ==
    /\ measure_on_stop
    /\ i >= 2
    /\ pc = "l63"
    /\ timespec_nsec(smp.stop) - timespec_nsec(smp.start) > 0
    /\ acc > timespec_nsec(smp.stop) - timespec_nsec(smp.start)
    /\ timespec_nsec(sw["t_body"].elapsed)
          = 2 * (timespec_nsec(smp.stop) - timespec_nsec(smp.start))

\* C17: in correctly sequenced use under a monotonic clock (Reset then
\* Start, Stop, Lap iterations on t_body; Start, Stop, Measure on t_total)
\* elapsed, once assigned, is always a normalized non-negative duration:
\* seconds >= 0 and 0 <= nanos < 10^9.
C17_ElapsedNormalized ==
    \A id \in {"t_total", "t_body"} :
        "elapsed" \in defined[id] =>
            /\ sw[id].elapsed.tv_sec >= 0
            /\ Normalized(sw[id].elapsed)

\* the program has finished: the laps carried into the seconds and the
\* measurement of the outer stopwatch borrowed
C17_Witness ==
    /\ pc = "done"
    /\ i >= 2
    /\ defined["t_total"] = Fields
    /\ defined["t_body"] = Fields
    /\ sw["t_body"].elapsed.tv_sec >= 1
    /\ sw["t_body"].elapsed.tv_nsec > 0
    /\ sw["t_total"].toc.tv_nsec < sw["t_total"].tic.tv_nsec
    /\ sw["t_total"].elapsed.tv_nsec > 0

\* a step changes no stopwatch other than the one the call was made on
OthersUntouched ==
    \A id \in Timers :
        id # last'.id => (sw'[id] = sw[id] /\ defined'[id] = defined[id])

\* C20: in the example, a call on one stopwatch never changes the fields of
\* the other, and without CTIMER_MEASURE_ON_STOP the finished program has
\* to_nanos(t_total.elapsed) >= to_nanos(t_body.elapsed) >= 0.
C20_IndependentNested ==
    /\ [][OthersUntouched]_vars
    /\ [](  (~measure_on_stop /\ pc = "done") =>
              /\ timespec_nsec(sw["t_total"].elapsed)
                   >= timespec_nsec(sw["t_body"].elapsed)
              /\ timespec_nsec(sw["t_body"].elapsed) >= 0 )

\* finished, default build: the inner laps add up to less than the outer time
C20_Witness ==
    /\ pc = "done"
    /\ ~measure_on_stop
    /\ i >= 2
    /\ timespec_nsec(sw["t_body"].elapsed) > 0
    /\ timespec_nsec(sw["t_total"].elapsed)
          > timespec_nsec(sw["t_body"].elapsed)
    /\ sw["t_total"].tic # sw["t_body"].tic
    /\ sw["t_total"].toc # sw["t_body"].toc

-----------------------------------------------------------------------------
(* Further properties of the stopwatch under any sequence of calls (Spec) *)

\* C11: Measure is idempotent on a stopped timer: a Measure that directly
\* follows a Measure of the same stopwatch, tic and toc both assigned,
\* leaves the stopwatch exactly as the first one left it.
C11_MeasureIdempotent ==
    [][ ( /\ last.op = "measure"
          /\ last'.op = "measure"
          /\ last'.id = last.id
          /\ {"tic", "toc"} \subseteq defined[last.id] )
        => (sw' = sw /\ defined' = defined) ]_vars

\* Start, Stop, Measure and Measure again, over a non-empty interval
C11_Witness ==
    /\ last.op = "measure"
    /\ nops >= 4
    /\ defined[last.id] = Fields
    /\ prev.tic # prev.toc
    /\ prev.elapsed = timespec_sub(prev.tic, prev.toc)
    /\ sw[last.id] = prev

\* stop is before start: both normalized, toc earlier than tic
Reversed(t) ==
    /\ Normalized(t.tic)
    /\ Normalized(t.toc)
    /\ ~NotAfter(t.tic, t.toc)

\* C12: a Measure with stop before start (both normalized) stores a negative
\* duration: seconds <= 0 and nanos <= 0, not both zero, with
\* to_nanos(elapsed) = to_nanos(stop) - to_nanos(start) < 0; nothing is
\* clamped to zero.
C12_MeasureReversed ==
    (last.op = "measure" /\ Reversed(prev)) =>
        LET e == sw[last.id].elapsed
        IN  /\ e.tv_sec <= 0
            /\ e.tv_nsec <= 0
            /\ e # Zero
            /\ timespec_nsec(e)
                 = timespec_nsec(prev.toc) - timespec_nsec(prev.tic)
            /\ timespec_nsec(e) < 0

\* Stop, time passes, Start, Measure: a reversed interval that borrows
C12_Witness ==
    /\ last.op = "measure"
    /\ {"tic", "toc"} \subseteq defined[last.id]
    /\ Reversed(prev)
    /\ prev.tic.tv_sec > prev.toc.tv_sec
    /\ prev.tic.tv_nsec < prev.toc.tv_nsec
    /\ sw[last.id].elapsed.tv_sec = 0
    /\ sw[last.id].elapsed.tv_nsec < 0

-----------------------------------------------------------------------------
(* Properties of a stopwatch used in any order once its fields are assigned *)
(* (OrderSpec)                                                              *)

\* seconds and nanos do not disagree in sign, and |nanos| < 10^9
SignConsistent(e) ==
    /\ ~(e.tv_sec > 0 /\ e.tv_nsec < 0)
    /\ ~(e.tv_sec < 0 /\ e.tv_nsec > 0)
    /\ e.tv_nsec > -_NSEC_PER_SEC
    /\ e.tv_nsec < _NSEC_PER_SEC

\* C18 as stated: in every sequence of calls that begins with Reset, Start
\* and Stop, under a monotonic clock, elapsed never has seconds > 0 with
\* nanos < 0, never has seconds < 0 with nanos > 0, and always has
\* |nanos| < 10^9.
C18_AnyOrderSignConsistent ==
    defined["t"] = Fields => SignConsistent(sw["t"].elapsed)

\* C18, amended: in such a sequence elapsed is sign-consistent with
\* |nanos| < 10^9 after every Reset, after every Measure and after every
\* Stop that measures, and after a Lap whose stop is not before its start
\* and whose elapsed was a normalized non-negative duration, elapsed is
\* again a normalized non-negative duration.
C18_SignConsistentSteps ==
    /\ last.op \in {"reset", "measure"} => SignConsistent(sw["t"].elapsed)
    /\ (last.op = "stop" /\ measure_on_stop) => SignConsistent(sw["t"].elapsed)
    /\ ( /\ last.op = "lap"
         /\ NotAfter(prev.tic, prev.toc)
         /\ prev.elapsed.tv_sec >= 0
         /\ Normalized(prev.elapsed) )
       => /\ sw["t"].elapsed.tv_sec >= 0
          /\ Normalized(sw["t"].elapsed)

\* a Lap repeated without a new Start and Stop: the same forward interval
\* is added to a positive elapsed and the nanoseconds carry
C18_Witness ==
    /\ last.op = "lap"
    /\ defined["t"] = Fields
    /\ nops >= 5
    /\ NotAfter(prev.tic, prev.toc)
    /\ prev.elapsed = timespec_sub(prev.tic, prev.toc)
    /\ prev.elapsed.tv_nsec > 0
    /\ sw["t"].elapsed.tv_sec = prev.elapsed.tv_sec + prev.elapsed.tv_sec + 1
    /\ Normalized(sw["t"].elapsed)

=============================================================================
